---- MODULE Spec2Model ----
(***************************************************************************)
(* The live state stream of the CityFlow dashboard                         *)
(* (frontend/lib/websocket.ts, connectStateStream) as a state machine.     *)
(*                                                                         *)
(* One session is modelled: the five closure variables of                  *)
(* connectStateStream, the browser objects they refer to (WebSocket        *)
(* objects, pending timers, fetch requests in flight) and a record of what *)
(* the most recent handler did (listener call, request issued, console     *)
(* output).  Every action is one JavaScript task: a handler runs to        *)
(* completion (or to its await) before the next one starts.                *)
(*                                                                         *)
(* Platform behaviour assumed (WHATWG fetch / HTML WebSocket):             *)
(*  - aborting the AbortController of a request in flight makes the        *)
(*    request reject; the rejection reaches pollState in a later task;     *)
(*  - a WebSocket delivers open and message events only while its ready    *)
(*    state is OPEN; an error event is dispatched in the task that also    *)
(*    dispatches the close event, error first;                             *)
(*  - close() on a socket leaves it CLOSING until its close event;         *)
(*  - clearTimeout of an id that already fired does nothing; ids are not   *)
(*    reused while a variable still holds them.                            *)
(*                                                                         *)
(* The second part models the replay player (components/ReplayPlayer.tsx   *)
(* under app/replays/page.tsx) with React 18's scheduling: state updates   *)
(* made outside a discrete event (timer callbacks, continuations of an     *)
(* await) are queued and rendered in a later task, and the passive effects *)
(* of such a render (useEffect and its cleanup) run in a task after that;  *)
(* updates made in a click or change event are rendered, and their effects *)
(* run, before the event's task ends.  Specification SpecReplay.           *)
(*                                                                         *)
(* The third part models mergeSeries of components/MetricsChart.tsx as the *)
(* code computes it: a Map from t to a bucket, filled run by run and record *)
(* by record in the order of Object.entries, then sorted by t.  Objects    *)
(* keep the insertion order of their keys.  Specification SpecMerge.       *)
(***************************************************************************)
EXTENDS Integers, FiniteSets, Sequences, TLC

\* ------------------------------------------------------------------ bounds
\* poll loops alive at once (requests in flight + fallback timers pending)
MaxLoops == 2
\* WebSocket objects that have not yet fired their close event
MaxSockets == 2
\* ticks the simulator produces
MaxTick == 1

\* frames of the longest replay
MaxFrames == 3
\* fetchReplay requests in flight at once
MaxLoads == 2
\* frames of the longest sequence whose timeline percent is computed
MaxTimeline == 6
\* records of all runs of a series together
MaxRecords == 2
\* the last tick a metrics record can carry
MaxT == 1

\* ------------------------------------------------------- program constants
TICK_MS == 200
FALLBACK_INTERVAL_MS == 500
RECONNECT_DELAY_MS == 3000
\* the null of `number | null`, `WebSocket | null`, `AbortController | null`
Null == 0

VARIABLES
    returned,        \* connectStateStream has returned its cleanup function
    stopped,         \* let stopped
    socket,          \* let socket: the WebSocket object last constructed
    fallbackTimer,   \* let fallbackTimer: a timer id or Null
    reconnectTimer,  \* let reconnectTimer: a timer id or Null
    controller,      \* let controller: the AbortController of the last poll
    sock,            \* the WebSocket objects: ready state, next tick to send
    timers,          \* the browser's pending timers of this session
    polls,           \* fetchState requests in flight
    srcTick,         \* the simulator's current tick
    ev,              \* what the most recent handler did
    mounted,         \* the replay page is mounted
    frames,          \* ReplaysPage frames, as rendered: the number of frames
    cursor,          \* ReplayPlayer cursor, as rendered
    playing,         \* ReplayPlayer playing, as rendered
    loading,         \* ReplaysPage loading, as rendered
    selected,        \* ReplaysPage selected is not null, as rendered
    pend,            \* the same state with the queued updates applied
    intervals,       \* the live setInterval timers and the frames they captured
    effect,          \* the dependencies and timer of the last effect run
    fetches,         \* fetchReplay requests in flight
    pev,             \* what the most recent step of the player did
    series,          \* MetricsChart series: the runs in the order of Object.entries
    merged           \* what mergeSeries returned for the series as it is now

streamVars == <<returned, stopped, socket, fallbackTimer, reconnectTimer, controller,
                sock, timers, polls, srcTick, ev>>
playerVars == <<mounted, frames, cursor, playing, loading, selected, pend,
                intervals, effect, fetches, pev>>
mergeVars == <<series, merged>>
vars == <<returned, stopped, socket, fallbackTimer, reconnectTimer, controller,
          sock, timers, polls, srcTick, ev,
          mounted, frames, cursor, playing, loading, selected, pend,
          intervals, effect, fetches, pev, series, merged>>

\* ------------------------------------------------------------ JSON values
JNull == [shape |-> "null"]
Garbage == [shape |-> "garbage"]
Snap(t) == [shape |-> "snapshot", t |-> t]
Wrap(v) == [shape |-> "wrapper", state |-> v]
NoCall == [shape |-> "nocall"]
NoInput == [shape |-> "noinput"]

\* JavaScript truthiness of a parsed JSON value: null is falsy, objects are not
Truthy(v) == v.shape # "null"

Throw == [threw |-> TRUE, value |-> JNull]
Return(v) == [threw |-> FALSE, value |-> v]

\* the snapshots the source can have produced between two ticks
Snaps(lo, hi) == {Snap(t) : t \in lo..hi}

\* What a request to GET /api/state can come back with: the fetch settles
\* (net), the body parses (json), the payload says ok: false (okFalse), the
\* status is 2xx (httpOk), and the payload (data)
Answer(net, json, okFalse, httpOk, data) ==
    [net |-> net, json |-> json, okFalse |-> okFalse, httpOk |-> httpOk, data |-> data]

\* the fetch of an aborted signal rejects
AbortError == Answer("abort", FALSE, FALSE, FALSE, Wrap(JNull))

Responses(lo, hi) ==
    {Answer("unreachable", FALSE, FALSE, FALSE, Wrap(JNull)),
     Answer("ok", FALSE, FALSE, TRUE, Wrap(JNull)),
     Answer("ok", TRUE, TRUE, TRUE, Wrap(JNull)),
     Answer("ok", TRUE, TRUE, FALSE, Wrap(JNull)),
     Answer("ok", TRUE, FALSE, FALSE, Wrap(JNull))}
    \cup {Answer("ok", TRUE, FALSE, TRUE, Wrap(v)) : v \in {JNull} \cup Snaps(lo, hi)}

\* parseJson without its check of response.ok
ParseJsonNoStatus(r) ==
    IF ~r.json THEN Throw
    ELSE IF r.okFalse THEN Throw
    ELSE Return(r.data)

\* parseJson: a body that is not JSON, an { ok: false } payload and a
\* non-success status all throw
ParseJson(r) ==
    IF ~r.json THEN Throw
    ELSE IF r.okFalse THEN Throw
    ELSE IF ~r.httpOk THEN Throw
    ELSE Return(r.data)

\* apiFetch: a fetch that rejects (network error, abort) throws
ApiFetch(r) ==
    IF r.net # "ok" THEN Throw ELSE ParseJson(r)

\* fetchState: data.state ?? null
FetchState(r) ==
    LET data == ApiFetch(r)
    IN IF data.threw THEN data ELSE Return(data.value.state)

\* JSON.parse(event.data)
JsonParse(d) == IF d.shape = "garbage" THEN Throw ELSE Return(d)

\* payload?.state ?? payload
StateOf(payload) ==
    IF payload.shape = "wrapper" /\ payload.state.shape # "null"
    THEN payload.state
    ELSE payload

\* frames a socket can deliver
Messages(lo, hi) ==
    {Garbage, JNull, Wrap(JNull)} \cup Snaps(lo, hi) \cup {Wrap(v) : v \in Snaps(lo, hi)}

\* ---------------------------------------------------------- session record
\* The handlers are written as functions of the session; Cur is the session
\* now and Commit installs the session a handler leaves behind.
SockIds == 1..MaxSockets
TimerIds == 1..(MaxLoops + 2)
PollIds == 1..(MaxLoops + 1)

Cur ==
    [stopped |-> stopped, socket |-> socket, fallbackTimer |-> fallbackTimer,
     reconnectTimer |-> reconnectTimer, controller |-> controller,
     sock |-> sock, timers |-> timers, polls |-> polls, ev |-> ev]

Commit(s) ==
    /\ stopped' = s.stopped
    /\ socket' = s.socket
    /\ fallbackTimer' = s.fallbackTimer
    /\ reconnectTimer' = s.reconnectTimer
    /\ controller' = s.controller
    /\ sock' = s.sock
    /\ timers' = s.timers
    /\ polls' = s.polls
    /\ ev' = s.ev

\* a handler starts: nothing observed yet
Begin(op, input) ==
    [Cur EXCEPT !.ev = [op |-> op, input |-> input, listener |-> NoCall,
                        request |-> FALSE, log |-> "none",
                        afterMalformed |-> ev.op = "onmessage"
                                             /\ ev.log = "Failed to parse state payload",
                        before |-> IF ev.listener.shape = "snapshot"
                                   THEN ev.listener ELSE ev.before]]

FallbackTimers(s) == {t \in s.timers : t.kind = "fallback"}
ReconnectTimers(s) == {t \in s.timers : t.kind = "reconnect"}
LoopCount(s) == Cardinality(s.polls) + Cardinality(FallbackTimers(s))

\* window.setTimeout hands out an id no pending timer and no variable holds
FreshTimer(s) ==
    CHOOSE i \in TimerIds :
        /\ i \notin {t.id : t \in s.timers} \cup {s.fallbackTimer, s.reconnectTimer}
        /\ \A j \in TimerIds :
              j \notin {t.id : t \in s.timers} \cup {s.fallbackTimer, s.reconnectTimer}
                 => i <= j

SetTimeout(s, kind, delay) ==
    [id |-> FreshTimer(s), kind |-> kind, delay |-> delay]

ClearTimeout(s, id) == [s EXCEPT !.timers = {t \in @ : t.id # id}]

\* new AbortController()
FreshPoll(s) ==
    CHOOSE i \in PollIds :
        /\ i \notin {p.id : p \in s.polls} \cup {s.controller}
        /\ \A j \in PollIds :
              j \notin {p.id : p \in s.polls} \cup {s.controller} => i <= j

\* controller.abort(): the request of that controller, if still in flight
Abort(s, id) ==
    [s EXCEPT !.polls = {IF p.id = id THEN [p EXCEPT !.aborted = TRUE, !.floor = 0] ELSE p : p \in @}]

\* new WebSocket(wsEndpoint)
FreshSocket(s) ==
    CHOOSE i \in SockIds :
        /\ s.sock[i].st = "closed"
        /\ \A j \in SockIds : s.sock[j].st = "closed" => i <= j

\* ------------------------------------------------------------ the closures
StopFallback(s) ==
    LET a == IF s.fallbackTimer # Null
             THEN [ClearTimeout(s, s.fallbackTimer) EXCEPT !.fallbackTimer = Null]
             ELSE s
    IN IF a.controller # Null
       THEN [Abort(a, a.controller) EXCEPT !.controller = Null]
       ELSE a

\* pollState that leaves the previous request running
PollStateNoAbort(s) ==
    IF s.stopped THEN s
    ELSE LET id == FreshPoll(s)
         IN [s EXCEPT !.controller = id,
                      !.polls = @ \cup {[id |-> id, aborted |-> FALSE, floor |-> srcTick]},
                      !.ev.request = TRUE]

\* pollState up to its await: abort the previous request, issue the next
PollState(s) ==
    IF s.stopped THEN s
    ELSE LET a == Abort(s, s.controller)
             id == FreshPoll(a)
         IN [a EXCEPT !.controller = id,
                      !.polls = @ \cup {[id |-> id, aborted |-> FALSE, floor |-> srcTick]},
                      !.ev.request = TRUE]

\* pollState with the re-arming setTimeout inside the try block
PollStateResumeInTry(s, result) ==
    IF result.threw
    THEN [s EXCEPT !.ev.log = "State fallback request failed"]
    ELSE LET a == IF Truthy(result.value)
                  THEN [s EXCEPT !.ev.listener = result.value]
                  ELSE s
             t == SetTimeout(a, "fallback", FALLBACK_INTERVAL_MS)
         IN [a EXCEPT !.fallbackTimer = t.id, !.timers = @ \cup {t}]

\* pollState after its await: deliver or log, then re-arm the timer
PollStateResume(s, result) ==
    LET a == IF result.threw
             THEN [s EXCEPT !.ev.log = "State fallback request failed"]
             ELSE IF Truthy(result.value)
                  THEN [s EXCEPT !.ev.listener = result.value]
                  ELSE s
        t == SetTimeout(a, "fallback", FALLBACK_INTERVAL_MS)
    IN [a EXCEPT !.fallbackTimer = t.id, !.timers = @ \cup {t}]

\* ensureFallback with its test inverted
EnsureFallbackInverted(s) ==
    IF s.fallbackTimer # Null THEN PollState(s) ELSE s

EnsureFallback(s) ==
    IF s.fallbackTimer = Null THEN PollState(s) ELSE s

ScheduleReconnect(s) ==
    IF s.reconnectTimer # Null \/ s.stopped THEN s
    ELSE LET t == SetTimeout(s, "reconnect", RECONNECT_DELAY_MS)
         IN [s EXCEPT !.reconnectTimer = t.id, !.timers = @ \cup {t}]

\* connectSocket whose catch only schedules the reconnect
ConnectSocketNoFallback(s, throws) ==
    IF s.stopped THEN s
    ELSE IF throws
         THEN ScheduleReconnect([s EXCEPT !.ev.log = "Unable to open WebSocket"])
         ELSE LET i == FreshSocket(s)
              IN [s EXCEPT !.socket = i,
                           !.sock[i] = [st |-> "connecting", floor |-> 0]]

ConnectSocket(s, throws) ==
    IF s.stopped THEN s
    ELSE IF throws
         THEN ScheduleReconnect(
                  EnsureFallback([s EXCEPT !.ev.log = "Unable to open WebSocket"]))
         ELSE LET i == FreshSocket(s)
              IN [s EXCEPT !.socket = i,
                           !.sock[i] = [st |-> "connecting", floor |-> 0]]

\* a handler that may start a poll loop needs room for one
Room(s) == s.stopped \/ s.fallbackTimer # Null \/ LoopCount(s) < MaxLoops
Slot(s) == s.stopped \/ \E i \in SockIds : s.sock[i].st = "closed"

\* the replay page after its first render: useState(0), useState(false),
\* useState([]), no run selected, the effect has run and made no timer
PlayerInit ==
    /\ mounted = TRUE
    /\ frames = 0
    /\ cursor = 0
    /\ playing = FALSE
    /\ loading = FALSE
    /\ selected = FALSE
    /\ pend = [frames |-> 0, cursor |-> 0, playing |-> FALSE, loading |-> FALSE,
               selected |-> FALSE, load |-> FALSE]
    /\ intervals = {}
    /\ effect = [playing |-> FALSE, frames |-> 0, id |-> Null]
    /\ fetches = 0
    /\ pev = [op |-> "mount", arg |-> 0, n |-> 0, from |-> 0, load |-> FALSE,
              sinceLoad |-> FALSE]

\* the metrics page before any run has been fetched
NoData == [metric |-> "none", rows |-> <<>>]

MergeInit ==
    /\ series = <<>>
    /\ merged = NoData

\* ------------------------------------------------------------------ actions
Init ==
    /\ PlayerInit
    /\ MergeInit
    /\ returned = FALSE
    /\ stopped = FALSE
    /\ socket = Null
    /\ fallbackTimer = Null
    /\ reconnectTimer = Null
    /\ controller = Null
    /\ sock = [i \in SockIds |-> [st |-> "closed", floor |-> 0]]
    /\ timers = {}
    /\ polls = {}
    /\ srcTick = 0
    /\ ev = [op |-> "init", input |-> NoInput, listener |-> NoCall,
             request |-> FALSE, log |-> "none", afterMalformed |-> FALSE,
             before |-> NoCall]

\* connectStateStream(listener): connectSocket(), return cleanup
Attach ==
    /\ ~returned
    /\ \E throws \in BOOLEAN :
          /\ IF throws THEN Room(Cur) ELSE Slot(Cur)
          /\ Commit(ConnectSocket(Begin("attach", NoInput), throws))
    /\ returned' = TRUE
    /\ UNCHANGED srcTick
    /\ UNCHANGED playerVars
    /\ UNCHANGED mergeVars

\* an error event has been dispatched and the close event of the same task
\* has not: no other task runs in between
Dispatching == \E i \in SockIds : sock[i].st = "errored"

\* socket.close()
CloseCall(s) ==
    IF s.socket # Null /\ s.sock[s.socket].st \in {"connecting", "open"}
    THEN [s EXCEPT !.sock[s.socket] = [st |-> "closing", floor |-> 0]]
    ELSE s

\* cleanup that forgets stopFallback()
CleanupFnNoStopFallback(s) ==
    LET a == [s EXCEPT !.stopped = TRUE]
        b == IF a.reconnectTimer # Null
             THEN [ClearTimeout(a, a.reconnectTimer) EXCEPT !.reconnectTimer = Null]
             ELSE a
    IN CloseCall(b)

\* cleanup that clears the reconnect timer but keeps its id
CleanupFnKeepsReconnectId(s) ==
    LET a == StopFallback([s EXCEPT !.stopped = TRUE])
        b == IF a.reconnectTimer # Null
             THEN ClearTimeout(a, a.reconnectTimer)
             ELSE a
    IN CloseCall(b)

\* the function connectStateStream returns
CleanupFn(s) ==
    LET a == StopFallback([s EXCEPT !.stopped = TRUE])
        b == IF a.reconnectTimer # Null
             THEN [ClearTimeout(a, a.reconnectTimer) EXCEPT !.reconnectTimer = Null]
             ELSE a
    IN CloseCall(b)

OnOpen(s) == StopFallback(s)

\* onmessage that treats a parse failure as a transport error
OnMessageFallback(s, data) ==
    LET payload == JsonParse(data)
    IN IF payload.threw
       THEN EnsureFallback([s EXCEPT !.ev.log = "Failed to parse state payload"])
       ELSE LET state == StateOf(payload.value)
            IN IF Truthy(state) THEN [s EXCEPT !.ev.listener = state] ELSE s

OnMessage(s, data) ==
    LET payload == JsonParse(data)
    IN IF payload.threw
       THEN [s EXCEPT !.ev.log = "Failed to parse state payload"]
       ELSE LET state == StateOf(payload.value)
            IN IF Truthy(state) THEN [s EXCEPT !.ev.listener = state] ELSE s

\* onerror that schedules the reconnect itself, before the socket has closed
OnErrorReconnects(s) ==
    ScheduleReconnect(EnsureFallback([s EXCEPT !.ev.log = "State stream error"]))

OnError(s) == EnsureFallback([s EXCEPT !.ev.log = "State stream error"])

\* onclose that forgets scheduleReconnect()
OnCloseNoReconnect(s) == EnsureFallback(s)

OnClose(s) == ScheduleReconnect(EnsureFallback(s))

\* the component unmounts, or calls the returned function again
Cleanup ==
    /\ returned /\ ~Dispatching
    /\ Commit(CleanupFn(Begin("cleanup", NoInput)))
    /\ UNCHANGED <<returned, srcTick>>
    /\ UNCHANGED playerVars
    /\ UNCHANGED mergeVars

SocketOpen(i) ==
    /\ ~Dispatching
    /\ sock[i].st = "connecting"
    /\ Commit(OnOpen([Begin("onopen", NoInput) EXCEPT
                         !.sock[i] = [st |-> "open", floor |-> srcTick]]))
    /\ UNCHANGED <<returned, srcTick>>
    /\ UNCHANGED playerVars
    /\ UNCHANGED mergeVars

SocketMessage(i) ==
    /\ ~Dispatching
    /\ sock[i].st = "open"
    /\ \E data \in Messages(sock[i].floor, srcTick) :
          LET sent == StateOf(IF data.shape = "garbage" THEN JNull ELSE data)
              next == IF sent.shape = "snapshot" THEN sent.t ELSE sock[i].floor
          IN Commit(OnMessage([Begin("onmessage", data) EXCEPT !.sock[i].floor = next],
                              data))
    /\ UNCHANGED <<returned, srcTick>>
    /\ UNCHANGED playerVars
    /\ UNCHANGED mergeVars

SocketError(i) ==
    /\ ~Dispatching
    /\ sock[i].st \in {"connecting", "open", "closing"}
    /\ Room(Cur)
    /\ Commit(OnError([Begin("onerror", NoInput) EXCEPT !.sock[i] = [st |-> "errored", floor |-> 0]]))
    /\ UNCHANGED <<returned, srcTick>>
    /\ UNCHANGED playerVars
    /\ UNCHANGED mergeVars

SocketClose(i) ==
    /\ sock[i].st \in {"open", "closing", "errored"}
    /\ Dispatching => sock[i].st = "errored"
    /\ Room(Cur)
    /\ Commit(OnClose([Begin("onclose", NoInput) EXCEPT !.sock[i] = [st |-> "closed", floor |-> 0]]))
    /\ UNCHANGED <<returned, srcTick>>
    /\ UNCHANGED playerVars
    /\ UNCHANGED mergeVars

\* window.setTimeout(pollState, FALLBACK_INTERVAL_MS) fires
FallbackFire(t) ==
    /\ ~Dispatching
    /\ t \in timers /\ t.kind = "fallback"
    /\ Commit(PollState([Begin("fallbackTimer", NoInput) EXCEPT !.timers = @ \ {t}]))
    /\ UNCHANGED <<returned, srcTick>>
    /\ UNCHANGED playerVars
    /\ UNCHANGED mergeVars

\* the reconnect timer fires: reconnectTimer = null; connectSocket()
ReconnectFire(t) ==
    /\ ~Dispatching
    /\ t \in timers /\ t.kind = "reconnect"
    /\ \E throws \in BOOLEAN :
          LET s == [Begin("reconnectTimer", NoInput) EXCEPT
                       !.timers = @ \ {t}, !.reconnectTimer = Null]
          IN /\ IF throws THEN Room(s) ELSE Slot(s)
             /\ Commit(ConnectSocket(s, throws))
    /\ UNCHANGED <<returned, srcTick>>
    /\ UNCHANGED playerVars
    /\ UNCHANGED mergeVars

\* the request of a poll settles and pollState resumes after its await
PollDone(p) ==
    /\ ~Dispatching
    /\ p \in polls
    /\ \E r \in (IF p.aborted THEN {AbortError} ELSE Responses(p.floor, srcTick)) :
          LET result == FetchState(r)
              input == [shape |-> "response", answer |-> r]
          IN Commit(PollStateResume([Begin("pollDone", input) EXCEPT !.polls = @ \ {p}],
                                    result))
    /\ UNCHANGED <<returned, srcTick>>
    /\ UNCHANGED playerVars
    /\ UNCHANGED mergeVars

\* the simulator produces its next snapshot
Tick ==
    /\ srcTick < MaxTick
    /\ srcTick' = srcTick + 1
    /\ UNCHANGED <<returned, stopped, socket, fallbackTimer, reconnectTimer,
                   controller, sock, timers, polls, ev>>
    /\ UNCHANGED playerVars
    /\ UNCHANGED mergeVars

Next ==
    \/ Attach
    \/ Cleanup
    \/ \E i \in SockIds : SocketOpen(i)
    \/ \E i \in SockIds : SocketMessage(i)
    \/ \E i \in SockIds : SocketError(i)
    \/ \E i \in SockIds : SocketClose(i)
    \/ \E t \in timers : FallbackFire(t)
    \/ \E t \in timers : ReconnectFire(t)
    \/ \E p \in polls : PollDone(p)
    \/ Tick

Spec == Init /\ [][Next]_vars

\* ============================================================ replay player
IntervalIds == 1..3
Lengths == 0..MaxFrames
SeekRequests == (0 - 2)..(MaxFrames + 2)
FetchResults == [ok : {TRUE}, len : Lengths] \cup {[ok |-> FALSE, len |-> 0]}

PCur ==
    [mounted |-> mounted, frames |-> frames, cursor |-> cursor, playing |-> playing,
     loading |-> loading, selected |-> selected, pend |-> pend,
     intervals |-> intervals, effect |-> effect, fetches |-> fetches, pev |-> pev]

PCommit(s) ==
    /\ mounted' = s.mounted
    /\ frames' = s.frames
    /\ cursor' = s.cursor
    /\ playing' = s.playing
    /\ loading' = s.loading
    /\ selected' = s.selected
    /\ pend' = s.pend
    /\ intervals' = s.intervals
    /\ effect' = s.effect
    /\ fetches' = s.fetches
    /\ pev' = s.pev

\* the session at the start of a step: the observation record is reset
PBegin(op, arg) ==
    [PCur EXCEPT !.pev = [op |-> op, arg |-> arg, n |-> frames, from |-> cursor,
                          load |-> FALSE,
                          sinceLoad |-> IF op = "toggle" THEN FALSE ELSE pev.sinceLoad]]

\* the updater passed to setCursor by the interval callback, without the wrap
TickUpdaterNoWrap(prev, len) ==
    IF prev >= len - 1 THEN prev ELSE prev + 1

\* the updater passed to setCursor by the interval callback
TickUpdater(prev, len) ==
    IF prev >= len - 1 THEN 0 ELSE prev + 1

\* max of the slider, one too large
SliderMaxLength(len) ==
    len

\* max of the slider: Math.max(frames.length - 1, 0)
SliderMax(len) ==
    IF len - 1 > 0 THEN len - 1 ELSE 0

\* the slider reports a requested value clamped into [min, max]
SliderClamp(p, lo, hi) ==
    IF p < lo THEN lo ELSE IF p > hi THEN hi ELSE p

\* Math.round of the quotient num / den of two naturals, den > 0: the
\* nearest integer, a half rounded up
MathRound(num, den) ==
    (2 * num + den) \div (2 * den)

\* timelinePercent of the render
TimelinePercent(cur, len) ==
    IF len > 1 THEN MathRound(cur * 100, len - 1) ELSE 0

\* currentFrame = frames[cursor] is a frame, not undefined
CurrentFrameDefined(cur, len) ==
    cur \in 0..(len - 1)

FreshInterval(s) ==
    CHOOSE i \in IntervalIds :
        /\ i \notin {t.id : t \in s.intervals}
        /\ \A j \in IntervalIds : j < i => j \in {t.id : t \in s.intervals}

\* the body of the effect without its check of frames.length
RunEffectNoEmptyCheck(s) ==
    IF ~s.playing
    THEN [s EXCEPT !.effect = [playing |-> s.playing, frames |-> s.frames, id |-> Null]]
    ELSE LET id == FreshInterval(s)
         IN  [s EXCEPT !.intervals = @ \cup {[id |-> id, len |-> s.frames, delay |-> TICK_MS]},
                       !.effect = [playing |-> s.playing, frames |-> s.frames, id |-> id]]

\* the body of the effect: no timer unless playing over a non-empty sequence
RunEffect(s) ==
    IF ~s.playing \/ s.frames = 0
    THEN [s EXCEPT !.effect = [playing |-> s.playing, frames |-> s.frames, id |-> Null]]
    ELSE LET id == FreshInterval(s)
         IN  [s EXCEPT !.intervals = @ \cup {[id |-> id, len |-> s.frames, delay |-> TICK_MS]},
                       !.effect = [playing |-> s.playing, frames |-> s.frames, id |-> id]]

\* the cleanup returned by the effect: clearInterval(id)
CleanupEffect(s) ==
    IF s.effect.id = Null
    THEN s
    ELSE [s EXCEPT !.intervals = {t \in @ : t.id # s.effect.id}, !.effect.id = Null]

EffectPending(s) ==
    IF s.mounted
    THEN <<s.playing, s.frames>> # <<s.effect.playing, s.effect.frames>>
    ELSE s.effect.id # Null

\* the passive effects of the last render: cleanup of the previous run, then
\* the effect again if [playing, frames] changed
FlushPassive(s) ==
    IF ~EffectPending(s) THEN s
    ELSE IF s.mounted THEN RunEffect(CleanupEffect(s))
    ELSE CleanupEffect(s)

RenderPending(s) ==
    \/ s.pend.load
    \/ <<s.pend.frames, s.pend.cursor, s.pend.playing, s.pend.loading, s.pend.selected>>
         # <<s.frames, s.cursor, s.playing, s.loading, s.selected>>

\* a render: the effects of the previous render run first, then the queued
\* updates become the rendered state
RenderCommit(s) ==
    LET f == FlushPassive(s)
    IN  [f EXCEPT !.frames = f.pend.frames,
                  !.cursor = f.pend.cursor,
                  !.playing = f.pend.playing,
                  !.loading = f.pend.loading,
                  !.selected = f.pend.selected,
                  !.pend.load = FALSE,
                  !.pev.load = f.pend.load,
                  !.pev.sinceLoad = f.pend.load \/ f.pev.sinceLoad]

\* an update made in a discrete event is rendered within the event's task,
\* ahead of the updates still queued, and the effects of that render run in
\* the same task; the effects of an earlier render run before the event
SyncSetPlaying(s) ==
    LET f == FlushPassive(s)
    IN  FlushPassive([f EXCEPT !.pend.playing = ~@, !.playing = ~@])

SyncSetCursor(s, v) ==
    LET f == FlushPassive(s)
    IN  FlushPassive([f EXCEPT !.pend.cursor = v, !.cursor = v])

SyncSetLoading(s) ==
    LET f == FlushPassive(s)
    IN  FlushPassive([f EXCEPT !.pend.loading = TRUE, !.loading = TRUE])

\* handleLoad up to its await
HandleLoadStart(s) ==
    [SyncSetLoading(s) EXCEPT !.fetches = @ + 1]

\* handleLoad after its await, then handleRunChange after its await
HandleLoadResume(s, r) ==
    LET a == IF r.ok
             THEN [s EXCEPT !.pend.frames = r.len, !.pend.selected = TRUE,
                            !.pend.load = TRUE]
             ELSE s
        b == [a EXCEPT !.pend.loading = FALSE]
    IN  [b EXCEPT !.pend.cursor = 0, !.pend.playing = FALSE]

\* click on the play / pause button
TogglePlay ==
    /\ mounted /\ selected /\ ~loading /\ frames # 0
    /\ PCommit(SyncSetPlaying(PBegin("toggle", 0)))
    /\ UNCHANGED streamVars
    /\ UNCHANGED mergeVars

\* the slider is moved to a requested position
Seek(p) ==
    /\ mounted /\ frames # 0
    /\ PCommit(SyncSetCursor(PBegin("seek", p), SliderClamp(p, 0, SliderMax(frames))))
    /\ UNCHANGED streamVars
    /\ UNCHANGED mergeVars

\* a run is chosen in the select; the empty option returns at once
HandleRunChange(empty) ==
    /\ mounted
    /\ empty \/ fetches < MaxLoads
    /\ PCommit(IF empty THEN PBegin("select", 0)
               ELSE HandleLoadStart(PBegin("select", 1)))
    /\ UNCHANGED streamVars
    /\ UNCHANGED mergeVars

\* fetchReplay settles
LoadDone(r) ==
    /\ fetches > 0
    /\ LET s == [PBegin("loadDone", r.len) EXCEPT !.fetches = @ - 1]
       IN  PCommit(IF mounted THEN HandleLoadResume(s, r) ELSE s)
    /\ UNCHANGED streamVars
    /\ UNCHANGED mergeVars

\* a setInterval timer fires
IntervalTick(t) ==
    /\ t \in intervals
    /\ LET s == PBegin("tick", t.len)
       IN  PCommit(IF mounted
                   THEN [s EXCEPT !.pend.cursor = TickUpdater(@, t.len)]
                   ELSE s)
    /\ UNCHANGED streamVars
    /\ UNCHANGED mergeVars

\* the scheduler renders the queued updates
Render ==
    /\ mounted
    /\ RenderPending(PCur)
    /\ PCommit(RenderCommit(PBegin("render", 0)))
    /\ UNCHANGED streamVars
    /\ UNCHANGED mergeVars

\* the scheduler runs the passive effects of the last render
FlushEffects ==
    /\ EffectPending(PCur)
    /\ PCommit(FlushPassive(PBegin("flush", 0)))
    /\ UNCHANGED streamVars
    /\ UNCHANGED mergeVars

\* the page is left
Unmount ==
    /\ mounted
    /\ PCommit([PBegin("unmount", 0) EXCEPT !.mounted = FALSE])
    /\ UNCHANGED streamVars
    /\ UNCHANGED mergeVars

NextReplay ==
    \/ TogglePlay
    \/ \E p \in SeekRequests : Seek(p)
    \/ \E empty \in BOOLEAN : HandleRunChange(empty)
    \/ \E r \in FetchResults : LoadDone(r)
    \/ \E t \in intervals : IntervalTick(t)
    \/ Render
    \/ FlushEffects
    \/ Unmount

SpecReplay == Init /\ [][NextReplay]_vars

\* ============================================================ metrics chart
Undefined == [shape |-> "undefined"]
Num(n) == [shape |-> "number", n |-> n]

RunIds == {"runA", "runB"}
Metrics == {"vehicle_count", "avg_waiting"}

\* MetricsRecord: vehicle_count is a number, avg_waiting may be null or absent
Records ==
    [t : 0..MaxT,
     vehicle_count : {Num(5), Num(7)},
     avg_waiting : {Num(3), JNull, Undefined}]

\* record[metric]
Field(record, metric) ==
    IF metric = "vehicle_count" THEN record.vehicle_count
    ELSE IF metric = "avg_waiting" THEN record.avg_waiting
    ELSE Undefined

\* value ?? 0 that lets null and undefined through
ZeroFillNever(value) ==
    value

\* value ?? 0
ZeroFill(value) ==
    IF value.shape \in {"null", "undefined"} THEN Num(0) ELSE value

\* a key that leaves the run out
BucketKeyMetricOnly(runId, metric) ==
    metric

\* the template literal `${runId}-${metric}`
BucketKey(runId, metric) ==
    runId \o "-" \o metric

\* bucket[key] = value: a new key goes last, an old one keeps its place
SetEntry(bucket, key, value) ==
    IF \E i \in 1..Len(bucket.entries) : bucket.entries[i].key = key
    THEN [bucket EXCEPT !.entries =
              [i \in 1..Len(@) |-> IF @[i].key = key
                                   THEN [key |-> key, value |-> value] ELSE @[i]]]
    ELSE [bucket EXCEPT !.entries = Append(@, [key |-> key, value |-> value])]

\* a bucket that is always new
GetBucketFresh(byTime, t) ==
    [t |-> t, entries |-> <<>>]

\* byTime.get(record.t) ?? { t: record.t }
GetBucket(byTime, t) ==
    IF \E i \in 1..Len(byTime) : byTime[i].t = t
    THEN byTime[CHOOSE i \in 1..Len(byTime) : byTime[i].t = t]
    ELSE [t |-> t, entries |-> <<>>]

\* byTime.set(record.t, bucket): a new t goes last, an old one keeps its place
MapSet(byTime, bucket) ==
    IF \E i \in 1..Len(byTime) : byTime[i].t = bucket.t
    THEN [i \in 1..Len(byTime) |-> IF byTime[i].t = bucket.t THEN bucket ELSE byTime[i]]
    ELSE Append(byTime, bucket)

\* the body of records.forEach
PutRecord(byTime, runId, record, metric) ==
    LET bucket == GetBucket(byTime, record.t)
        value == Field(record, metric)
    IN  MapSet(byTime, SetEntry(bucket, BucketKey(runId, metric), ZeroFill(value)))

RECURSIVE EachRecord(_, _, _, _)
EachRecord(byTime, runId, records, metric) ==
    IF records = <<>> THEN byTime
    ELSE EachRecord(PutRecord(byTime, runId, Head(records), metric),
                    runId, Tail(records), metric)

RECURSIVE EachRun(_, _, _)
EachRun(byTime, entries, metric) ==
    IF entries = <<>> THEN byTime
    ELSE EachRun(EachRecord(byTime, Head(entries).runId, Head(entries).records, metric),
                 Tail(entries), metric)

\* one row put into rows that are already sorted, after the rows that do not
\* compare greater
RECURSIVE Insert(_, _)
Insert(rows, row) ==
    IF rows = <<>> THEN <<row>>
    ELSE IF Head(rows).t - row.t > 0 THEN <<row>> \o rows
    ELSE <<Head(rows)>> \o Insert(Tail(rows), row)

\* a sort that leaves the rows as they are
SortByTNone(rows) ==
    rows

\* rows.sort((a, b) => a.t - b.t), a stable sort
RECURSIVE SortByT(_)
SortByT(rows) ==
    IF rows = <<>> THEN <<>>
    ELSE Insert(SortByT(SubSeq(rows, 1, Len(rows) - 1)), rows[Len(rows)])

MergeSeries(entries, metric) ==
    SortByT(EachRun(<<>>, entries, metric))

TotalRecords ==
    LET RECURSIVE Sum(_)
        Sum(i) == IF i = 0 THEN 0 ELSE Len(series[i].records) + Sum(i - 1)
    IN  Sum(Len(series))

\* the metrics of one more run are fetched
AddRun(id) ==
    /\ \A i \in 1..Len(series) : series[i].runId # id
    /\ series' = Append(series, [runId |-> id, records |-> <<>>])
    /\ merged' = NoData
    /\ UNCHANGED <<streamVars, playerVars>>

\* a run has one more record
AddRecord(i, record) ==
    /\ i \in 1..Len(series)
    /\ TotalRecords < MaxRecords
    /\ series' = [series EXCEPT ![i].records = Append(@, record)]
    /\ merged' = NoData
    /\ UNCHANGED <<streamVars, playerVars>>

\* MetricsChart renders: const data = mergeSeries(series, metric)
Merge(metric) ==
    /\ merged' = [metric |-> metric, rows |-> MergeSeries(series, metric)]
    /\ UNCHANGED series
    /\ UNCHANGED <<streamVars, playerVars>>

NextMerge ==
    \/ \E id \in RunIds : AddRun(id)
    \/ \E i \in 1..Cardinality(RunIds) : \E record \in Records : AddRecord(i, record)
    \/ \E metric \in Metrics : Merge(metric)

SpecMerge == Init /\ [][NextMerge]_vars
\* ------------------------------------------------------------------ claims
Open(i) == sock[i].st = "open"
Live(i) == sock[i].st \in {"connecting", "open", "errored"}
Attached == returned /\ ~stopped
LoopAlive == polls # {} \/ FallbackTimers(Cur) # {}
ReconnectPending ==
    /\ reconnectTimer # Null
    /\ [id |-> reconnectTimer, kind |-> "reconnect", delay |-> 3000] \in timers

\* C1: once cleanup has returned the listener is not invoked again, whatever
\* was pending: a poll in flight, socket events, timers.
C1_NoListenerAfterCleanup == stopped => ev.listener = NoCall

\* a poll that was in flight when cleanup ran has settled after it
C1_Witness ==
    /\ stopped
    /\ ev.op = "pollDone"
    /\ ev.input.answer = AbortError

\* C2: after cleanup the socket has been closed, no timer is pending, no
\* request is outstanding un-aborted, and no timer is armed or request issued
\* later in the session.
C2_Claim ==
    stopped =>
        /\ timers = {}
        /\ \A p \in polls : p.aborted
        /\ ~ev.request
        /\ socket # Null => sock[socket].st \notin {"connecting", "open"}

\* C3: while the push socket of an attached session is open, no fallback poll
\* request is issued and no poll result reaches the listener.
C3_Claim ==
    (Attached /\ \E i \in SockIds : Open(i)) =>
        /\ ~ev.request
        /\ ~(ev.op = "pollDone" /\ ev.listener # NoCall)

\* C4: from the moment the push socket opens until it next errors or closes
\* the fallback poller is cancelled: no fallback timer is pending, every
\* request still in flight is aborted, and no handler issues a request.
C4_Claim ==
    (Attached /\ \E i \in SockIds : Open(i)) =>
        /\ FallbackTimers(Cur) = {}
        /\ \A p \in polls : p.aborted
        /\ ev.op \in {"fallbackTimer", "pollDone"} => ~ev.request

\* C5: an error or close event of the socket of an attached session leaves
\* fallback polling active at once: the handler itself issues a request, or
\* a poll loop (request in flight or fallback timer pending) was alive before
\* the event; and a loop is alive after it.
C5_FallbackImmediately ==
    [][(ev'.op \in {"onerror", "onclose"} /\ srcTick' = srcTick /\ ~stopped) =>
          /\ ev'.request \/ LoopAlive
          /\ LoopAlive']_vars

\* the error handler of an attached session issued the first poll itself
C5_Witness ==
    /\ Attached
    /\ ev.op = "onerror"
    /\ ev.request
    /\ Cardinality(polls) = 1 /\ FallbackTimers(Cur) = {}

\* C6: an attached session whose push socket is neither connecting nor open
\* has a reconnect timer of 3000 ms pending; the close handler arms it, and
\* when it fires a new socket is connecting or, if construction failed, the
\* next reconnect timer is pending.
C6_KeepsReconnecting ==
    Attached =>
        /\ (\E i \in SockIds : Live(i)) \/ ReconnectPending
        /\ ev.op = "onclose" => ReconnectPending
        /\ ev.op = "reconnectTimer" =>
              \/ socket # Null /\ sock[socket].st = "connecting" /\ ev.log = "none"
              \/ ev.log = "Unable to open WebSocket" /\ ReconnectPending

\* a reconnect attempt failed and the next one is scheduled
C6_Witness ==
    /\ Attached
    /\ ev.op = "onclose"
    /\ ReconnectPending
    /\ \A i \in SockIds : ~Live(i)
    /\ socket # Null

\* C7: an attached session always has a live data source: a socket that is
\* connecting or open, or a poll loop alive.
C7_SomeSourceLive ==
    Attached => (\E i \in SockIds : sock[i].st \in {"connecting", "open"}) \/ LoopAlive

\* the socket is gone and only the poll loop feeds the listener
C7_Witness ==
    /\ Attached
    /\ \A i \in SockIds : sock[i].st = "closed"
    /\ polls = {}
    /\ FallbackTimers(Cur) # {}

\* C8: at most one request is outstanding with an un-aborted signal, and it
\* is the one the controller variable refers to.
C8_OneEffectiveRequest ==
    /\ Cardinality({p \in polls : ~p.aborted}) <= 1
    /\ \A p \in polls : ~p.aborted => p.id = controller

\* a new poll cycle started while the previous request was outstanding
C8_Witness ==
    /\ ev.request
    /\ \E p, q \in polls : p.aborted /\ ~q.aborted

\* a network error, a body that is not JSON, an error payload, a non-2xx status
FailedAnswer(r) == r.net # "ok" \/ ~r.json \/ r.okFalse \/ ~r.httpOk

\* C9: a poll that fails is logged and not delivered, the next poll is armed
\* 500 ms later, and when that timer fires in an attached session the next
\* request is issued.
C9_FailedPollContinues ==
    /\ (ev.op = "pollDone" /\ FailedAnswer(ev.input.answer)) =>
          /\ ev.listener = NoCall
          /\ ev.log = "State fallback request failed"
          /\ [id |-> fallbackTimer, kind |-> "fallback", delay |-> 500] \in timers
    /\ (ev.op = "fallbackTimer" /\ ~stopped) => ev.request /\ polls # {}

\* a poll of an attached session came back with a non-success status
C9_Witness ==
    /\ Attached
    /\ ev.op = "pollDone"
    /\ ev.input.answer.net = "ok" /\ ev.input.answer.json
    /\ ~ev.input.answer.httpOk /\ ~ev.input.answer.okFalse
    /\ \A i \in SockIds : ~Open(i)

ValidMessage(d) ==
    \/ d.shape = "snapshot"
    \/ d.shape = "wrapper" /\ d.state.shape = "snapshot"

\* C10: a push message that fails to parse is dropped with a diagnostic and
\* changes nothing of the session; a valid message is delivered as its
\* snapshot, also right after a malformed one.
C10_MalformedDropped ==
    /\ [][(ev'.op = "onmessage" /\ ev'.input = Garbage) =>
             /\ ev'.listener = NoCall
             /\ ev'.log = "Failed to parse state payload"
             /\ UNCHANGED <<returned, stopped, socket, fallbackTimer, reconnectTimer,
                            controller, timers, polls>>
             /\ \A i \in SockIds : sock'[i].st = sock[i].st]_vars
    /\ []((ev.op = "onmessage" /\ ValidMessage(ev.input)) =>
             ev.listener = StateOf(ev.input) /\ ev.listener.shape = "snapshot")

\* a malformed message was followed by a valid one, which was delivered
C10_Witness ==
    /\ ev.op = "onmessage"
    /\ ev.afterMalformed
    /\ ValidMessage(ev.input)
    /\ ev.listener.shape = "snapshot"
\* C11: the listener never receives a snapshot older than the one it
\* received last in the session.
C11_Claim ==
    (ev.listener.shape = "snapshot" /\ ev.before.shape = "snapshot") =>
        ev.listener.t >= ev.before.t

\* C12: when the WebSocket constructor throws during attach, the cleanup
\* function is still returned, a poll request is issued in attach itself with
\* no fallback timer before it, the reconnect is scheduled, and a snapshot
\* that request comes back with is handed to the listener.
C12_ConstructFailureFallsBack ==
    /\ []((ev.op = "attach" /\ ev.log = "Unable to open WebSocket") =>
             /\ returned /\ ~stopped
             /\ ev.request
             /\ \E p \in polls : ~p.aborted /\ p.id = controller
             /\ FallbackTimers(Cur) = {}
             /\ ReconnectPending)
    /\ [][(/\ ev.op = "attach" /\ ev.log = "Unable to open WebSocket"
           /\ ev'.op = "pollDone"
           /\ ~FailedAnswer(ev'.input.answer)
           /\ ev'.input.answer.data.state.shape = "snapshot") =>
              ev'.listener = ev'.input.answer.data.state]_vars

\* no socket was ever constructed and the first poll delivered a snapshot
C12_Witness ==
    /\ Attached
    /\ socket = Null
    /\ ev.op = "pollDone"
    /\ ev.listener.shape = "snapshot"
    /\ ReconnectPending

\* C13: cleanup is idempotent: applied twice in any session state it gives
\* what one application gives, it invokes no listener, issues no request
\* and arms no timer, and in every state after a first call a further call
\* leaves stopped, the timer variables, the controller and the socket
\* variable as the first call left them.
C13_CleanupIdempotent ==
    LET once == CleanupFn(Begin("cleanup", NoInput))
    IN /\ returned => CleanupFn(once) = once
       /\ once.ev.listener = NoCall /\ ~once.ev.request
       /\ once.timers \subseteq timers
       /\ {p.id : p \in once.polls} = {p.id : p \in polls}
       /\ once.stopped /\ once.socket = socket
       /\ once.fallbackTimer = Null /\ once.reconnectTimer = Null
       /\ once.controller = Null
       /\ stopped => reconnectTimer = Null /\ controller = Null

\* cleanup has been called and a later call still finds a timer to clear
C13_Witness ==
    /\ stopped
    /\ ev.op # "cleanup"
    /\ fallbackTimer # Null
    /\ timers # {}

\* C14: at most one socket is connecting or open, at most one reconnect
\* timer is pending, a reconnect timer is pending only while every socket
\* is closed, and a socket starts connecting only in attach or in the
\* reconnect timer's callback.
C14_OneSocketOneReconnect ==
    /\ [](/\ Cardinality({i \in SockIds : sock[i].st # "closed"}) <= 1
          /\ Cardinality(ReconnectTimers(Cur)) <= 1
          /\ ReconnectTimers(Cur) # {} =>
                /\ \A i \in SockIds : sock[i].st = "closed"
                /\ ReconnectPending)
    /\ [][\A i \in SockIds :
            (sock[i].st # "connecting" /\ sock'[i].st = "connecting") =>
                ev'.op \in {"attach", "reconnectTimer"}]_vars

\* the reconnect timer fired after a close and the next socket is connecting
C14_Witness ==
    /\ ev.op = "reconnectTimer"
    /\ socket # Null /\ sock[socket].st = "connecting"
    /\ polls # {}

\* C26: at most one fallback timer is pending and it is the one recorded in
\* fallbackTimer.
C26_Claim ==
    /\ Cardinality(FallbackTimers(Cur)) <= 1
    /\ \A t \in FallbackTimers(Cur) : t.id = fallbackTimer

\* C27: the listener is only ever called with a state snapshot; in
\* particular a push message whose state field is null calls no listener.
C27_Claim ==
    /\ ev.listener # NoCall => ev.listener.shape = "snapshot"
    /\ (ev.op = "onmessage" /\ ev.input = Wrap(JNull)) => ev.listener = NoCall

\* ------------------------------------------------------ replay player claims
\* C15: while playing over n >= 1 frames with no load queued, a tick of the
\* 200 ms timer moves the cursor by exactly one position, and from n-1 to 0;
\* each tick is applied (two ticks before a render move it by two); the tick
\* leaves the play state and the timer alone.  On 3 frames from 0: 1, 2, 0.
C15_TickAdvancesByOne ==
    /\ [][\A t \in intervals :
            (/\ IntervalTick(t)
             /\ mounted /\ playing /\ frames >= 1
             /\ t.len = frames /\ pend.frames = frames
             /\ pend.cursor \in 0..(frames - 1)) =>
                /\ t.delay = 200
                /\ pend'.cursor = (pend.cursor + 1) % frames
                /\ pend'.playing = pend.playing
                /\ playing' /\ intervals' = intervals]_vars
    /\ [](/\ TickUpdater(0, 3) = 1
          /\ TickUpdater(TickUpdater(0, 3), 3) = 2
          /\ TickUpdater(TickUpdater(TickUpdater(0, 3), 3), 3) = 0)

\* a render shows the tick from the last of 3 frames back to the first, and
\* the timer is still running
C15_Witness ==
    /\ pev.op = "render" /\ pev.from = 2
    /\ frames = 3 /\ cursor = 0
    /\ playing /\ Cardinality(intervals) = 1

\* C16: once a load has installed its sequence, and until play is requested
\* again, no auto-advance timer exists and no tick fires.
C16_Claim ==
    pev.sinceLoad => intervals = {} /\ pev.op # "tick"

\* C17: the cursor is a valid position of the active sequence: within
\* 0..length-1 when it is non-empty, 0 when it is empty.
C17_Claim ==
    IF frames = 0 THEN cursor = 0 ELSE cursor \in 0..(frames - 1)

\* C18: the render that installs a loaded sequence shows the cursor at
\* position 0 and auto-advance paused.
C18_Claim ==
    (pev.op = "render" /\ pev.load) => cursor = 0 /\ ~playing

\* C19: at most one auto-advance timer exists, and none while the mounted
\* player is paused.
C19_Claim ==
    /\ Cardinality(intervals) <= 1
    /\ (mounted /\ ~playing) => intervals = {}

\* C20: a seek to a requested position p on n >= 1 frames shows the cursor
\* at p clamped into [0, n-1]: n-1 for a request above, 0 for a request
\* below; seek(99) on 3 frames gives 2 and seek(-5) gives 0.
C20_SeekClamps ==
    /\ pev.op = "seek" =>
          /\ pev.n >= 1
          /\ cursor = (IF pev.arg < 0 THEN 0
                       ELSE IF pev.arg > pev.n - 1 THEN pev.n - 1
                       ELSE pev.arg)
          /\ pend.cursor = cursor
    /\ SliderClamp(99, 0, SliderMax(3)) = 2
    /\ SliderClamp(0 - 5, 0, SliderMax(3)) = 0

\* a request above the last of 3 frames left the cursor on the last frame
C20_Witness ==
    /\ pev.op = "seek" /\ pev.arg > 2
    /\ pev.n = 3 /\ frames = 3 /\ cursor = 2

InputTicks ==
    UNION {{series[i].records[j].t : j \in 1..Len(series[i].records)} :
              i \in 1..Len(series)}

\* run i has a record at tick t
HasRecordAt(i, t) ==
    \E j \in 1..Len(series[i].records) : series[i].records[j].t = t

\* the last record of run i at tick t
LastRecordAt(i, t) ==
    LET recs == series[i].records
        j == CHOOSE k \in 1..Len(recs) :
                /\ recs[k].t = t
                /\ \A l \in 1..Len(recs) : recs[l].t = t => l <= k
    IN  recs[j]

\* the keys of a row other than t, with their values
EntrySet(row) ==
    {row.entries[k] : k \in 1..Len(row.entries)}

\* C22: the rows of mergeSeries carry exactly the ticks of the input, each
\* once, in strictly ascending order; without records the output is empty.
C22_OneRowPerTick ==
    merged # NoData =>
        LET rows == merged.rows
        IN  /\ {rows[k].t : k \in 1..Len(rows)} = InputTicks
            /\ Len(rows) = Cardinality(InputTicks)
            /\ \A k \in 1..Len(rows) : \A l \in 1..Len(rows) :
                  k < l => rows[k].t < rows[l].t
            /\ InputTicks = {} => rows = <<>>

\* a run whose records came with the later tick first was merged
C22_Witness ==
    /\ merged # NoData
    /\ Len(merged.rows) = 2
    /\ \E i \in 1..Len(series) :
          /\ Len(series[i].records) = 2
          /\ series[i].records[1].t > series[i].records[2].t

\* C23: a row at tick t has the key '<run>-<metric>' exactly for the runs
\* that have a record at t, and no other key; the example of two runs gives
\* [{t:0, runA-vehicle_count:5}, {t:1, runA-vehicle_count:7, runB-vehicle_count:3}].
C23_KeyIffRecord ==
    /\ merged # NoData =>
          \A k \in 1..Len(merged.rows) :
              LET row == merged.rows[k]
                  keys == {e.key : e \in EntrySet(row)}
              IN  /\ \A i \in 1..Len(series) :
                        (series[i].runId \o "-" \o merged.metric) \in keys
                            <=> HasRecordAt(i, row.t)
                  /\ keys \subseteq
                        {series[i].runId \o "-" \o merged.metric : i \in 1..Len(series)}
                  /\ Cardinality(keys) = Len(row.entries)
    /\ MergeSeries(<<[runId |-> "runA",
                      records |-> <<[t |-> 0, vehicle_count |-> Num(5), avg_waiting |-> Undefined],
                                    [t |-> 1, vehicle_count |-> Num(7), avg_waiting |-> Undefined]>>],
                     [runId |-> "runB",
                      records |-> <<[t |-> 1, vehicle_count |-> Num(3), avg_waiting |-> Undefined]>>]>>,
                   "vehicle_count")
         = <<[t |-> 0, entries |-> <<[key |-> "runA-vehicle_count", value |-> Num(5)]>>],
             [t |-> 1, entries |-> <<[key |-> "runA-vehicle_count", value |-> Num(7)],
                                     [key |-> "runB-vehicle_count", value |-> Num(3)]>>]>>

\* two runs with records were merged and a row has the key of only one
C23_Witness ==
    /\ merged # NoData
    /\ Len(series) = 2
    /\ series[1].records # <<>> /\ series[2].records # <<>>
    /\ \E k \in 1..Len(merged.rows) : Len(merged.rows[k].entries) = 1

\* C24: every run entry of every row is a number: the value of the metric in
\* the run's last record at that tick when it is a number, and 0 when it is
\* null or absent.
C24_ZeroFill ==
    merged # NoData =>
        \A k \in 1..Len(merged.rows) :
            LET row == merged.rows[k]
            IN  /\ \A e \in EntrySet(row) : e.value.shape = "number"
                /\ \A i \in 1..Len(series) :
                      HasRecordAt(i, row.t) =>
                          LET sample == LastRecordAt(i, row.t)[merged.metric]
                              key == series[i].runId \o "-" \o merged.metric
                          IN  [key |-> key,
                               value |-> IF sample.shape = "number" THEN sample ELSE Num(0)]
                                  \in EntrySet(row)

\* a record without the metric, and one with null, were merged as 0
C24_Witness ==
    /\ merged.metric = "avg_waiting"
    /\ \E i \in 1..Len(series) : \E j \in 1..Len(series[i].records) :
          series[i].records[j].avg_waiting = JNull
    /\ \E i \in 1..Len(series) : \E j \in 1..Len(series[i].records) :
          series[i].records[j].avg_waiting = Undefined
    /\ \A k \in 1..Len(merged.rows) : \A e \in EntrySet(merged.rows[k]) : e.value = Num(0)
    /\ merged.rows # <<>>

\* two outputs with the same rows in the same order, each row with the same
\* keys and values
SameOutput(a, b) ==
    /\ Len(a) = Len(b)
    /\ \A k \in 1..Len(a) : a[k].t = b[k].t /\ EntrySet(a[k]) = EntrySet(b[k])

====
